---- MODULE Spec2Model ----
(***************************************************************************)
(* Real-time interview session orchestrator of the AI mock interview       *)
(* frontend: the AudioPlayer (utils/audioUtils.ts), the useVoiceInterview  *)
(* hook (hooks/useVoiceInterview.ts), the turn detector of the interview   *)
(* page (app/interview/[sessionId]/interview_layout.tsx) and the           *)
(* useSpeechRecognition hooks (Azure SDK and Web Speech versions).         *)
(*                                                                         *)
(* Scheduling: one JavaScript event loop.  An action is one macrotask      *)
(* (a websocket event, a timer callback, a platform callback, a React      *)
(* commit) together with the microtasks it queues; a continuation that     *)
(* waits for a platform promise (AudioContext.resume, the SDK script load) *)
(* is an action of its own.                                                *)
(***************************************************************************)
EXTENDS Integers, Sequences, FiniteSets, TLC

\* ------------------------------------------------------------------ bounds
MaxChunks == 3        \* playChunk calls / ai_audio messages per run
MaxMsgs == 4          \* inbound websocket messages per run
MaxPageMsgs == 3      \* inbound messages per run of the interview page
MaxFragments == 2     \* transcript fragments delivered per run
MaxTime == 5000       \* the clock stops advancing here (ms)
TickMs == 1250        \* granularity of the clock (ms)
EpochMs == 100000     \* Date.now() when the page loads (ms)
MaxRecognizers == 2   \* startRecognition calls that get past their guard
MaxAttempts == 2      \* restartAttemptRef stops growing here
MaxHeard == 1         \* onTranscript calls made by the Azure hook per run
MaxRetries == 5       \* restarts followed when every start fails
MaxPendingRestarts == 2   \* Web Speech restart timers pending at once
MaxRouteMsgs == 3     \* inbound messages per run of the route page
MaxBlobs == 1         \* recorded blobs kept per run of the route page
MaxRouteResults == 2  \* result events per run of the route page
MaxCommands == 3      \* calls of sendTranscript / endInterview per run
MaxMpHeard == 2       \* onTranscript calls kept per run (useMediaPipe.ts hook)

\* setTimeout delay of the silence timer (ms)
SilenceThresholdMs == 2500

\* restart cap of the Web Speech version of useSpeechRecognition
MAX_RESTARTS == 3

\* interviewId: number | null
NULL == -1

VARIABLES
    state,            \* useVoiceInterview: state.current (VoiceInterviewState)
    audioPlayerRef,   \* useVoiceInterview: audioPlayerRef.current is set
    player,           \* the AudioPlayer and the AudioContext it owns
    arrived,          \* number of playChunk calls made so far (chunk ids)
    wsReadyState,     \* WebSocket.readyState of the socket made by connect()
    ws,               \* useVoiceInterview: the `ws` React state is set
    commandCalls,     \* calls of sendTranscript and endInterview made so far
    msgCount,         \* inbound messages handled so far
    lastMsg,          \* the inbound message handled last
    \* ---- interview page (interview_layout.tsx) and useVideoRecorder
    now,              \* milliseconds since the page loaded
    mounted,          \* the page component is mounted
    camera,           \* the getUserMedia stream: "none" | "active" (tracks
                      \* live) | "failed" | "released" (tracks stopped)
    transcriptBufferRef,  \* transcriptBufferRef.current
    silenceTimerRef,  \* silenceTimerRef.current: a timer id, 0 for null
    timers,           \* setTimeout table: pending silence timers
    timerSeq,         \* timer ids handed out so far
    outbox,           \* messages accepted by ws.send, in order
    candidateSpeaking,    \* the candidateSpeaking React state
    timelineRef,      \* useVideoRecorder: timelineRef.current
    startTimeRef,     \* useVideoRecorder: startTimeRef.current (epoch ms)
    recognizerLive,   \* a started recognizer can still deliver results
    fragCount,        \* fragments delivered so far
    fired,            \* silence-timer callbacks run so far
    lastFinalAt,      \* clock value when the last final fragment arrived
    pendingFrags,     \* final fragments received since the last flush
    showUpload,       \* the showUpload React state (handleInterviewEnd ran)
    recorder,         \* MediaRecorder: "inactive" | "recording" | "stopping"
                      \* | "stopped"
    endPending,       \* interviewId held by a handleInterviewEnd call that
                      \* waits for the recorder's stop event, else NULL
    uploaded,         \* interviewId handed to UploadService, else NULL
    uploadCalls,      \* calls of UploadService.uploadWithProgress so far
    endHandledFor,    \* interviewId of the last handleInterviewEnd run
    uploadedTimeline, \* the timeline handed to UploadService with it
    \* ---- useSpeechRecognition (Azure Speech SDK version)
    az,               \* the hook's refs and state, and its recognizers
    \* ---- useSpeechRecognition (Web Speech API version)
    sr,               \* the hook's refs and state, and its recognition object
    \* ---- the route page (page.tsx)
    rp,               \* the page's refs and state, and what the platform
                      \* holds for it
    \* ---- useSpeechRecognition (the version in useMediaPipe.ts)
    mp                \* the hook's refs and state, and its recognition object

sessionVars == <<state, audioPlayerRef, wsReadyState, ws, commandCalls,
                 msgCount, lastMsg>>
audioVars == <<player, arrived>>
turnVars == <<transcriptBufferRef, silenceTimerRef, timers, timerSeq, outbox,
              candidateSpeaking, fragCount, fired, lastFinalAt, pendingFrags>>
recorderVars == <<timelineRef, startTimeRef>>
endVars == <<showUpload, recorder, endPending, uploaded, uploadCalls,
             endHandledFor,
             uploadedTimeline>>
corePageVars == <<now, mounted, camera, recognizerLive, turnVars,
                  recorderVars, endVars>>
pageVars == <<corePageVars, az, sr, rp, mp>>

\* ------------------------------------------------------------ AudioPlayer
\* A player is the record
\*   audioContext  "open" | "null"        this.audioContext
\*   audioQueue    sequence of chunk ids  this.audioQueue (decoded buffers)
\*   isPlaying     BOOLEAN                this.isPlaying
\* followed by what the platform holds for it:
\*   ctxState        AudioContext.state: "suspended" | "running" | "closed"
\*   resumePromises  playChunk calls suspended at `await this.initialize()`,
\*                   in the order resume() was called
\*   sources         buffer sources started whose onended has not fired
\*   startLog        chunk ids in the order source.start(0) was called
\*   closeCalls      number of AudioContext.close() calls
\*   errorLog        number of console.error calls of playChunk
\*   thrown          exceptions that escaped a method or a callback
\*   failed          ids of the chunks whose playChunk ended in its catch block

NewAudioPlayer(ctx) ==
    [audioContext |-> "open", audioQueue |-> <<>>, isPlaying |-> FALSE,
     ctxState |-> ctx, resumePromises |-> <<>>, sources |-> {},
     startLog |-> <<>>, closeCalls |-> 0, errorLog |-> 0, thrown |-> 0,
     failed |-> {}]

\* The placeholder held before connect() constructs the player.
NoAudioPlayer ==
    [audioContext |-> "null", audioQueue |-> <<>>, isPlaying |-> FALSE,
     ctxState |-> "closed", resumePromises |-> <<>>, sources |-> {},
     startLog |-> <<>>, closeCalls |-> 0, errorLog |-> 0, thrown |-> 0,
     failed |-> {}]

\* A chunk handed to playChunk: its arrival number and whether
\* base64ToArrayBuffer / pcm16ToAudioBuffer accept its bytes.
Chunk(n, ok) == [id |-> n, ok |-> ok]

\* playNext(): with a null context createBufferSource throws after the shift.
playNext(p) ==
    IF p.audioQueue = <<>>
    THEN [p EXCEPT !.isPlaying = FALSE]
    ELSE IF p.audioContext = "null"
    THEN [p EXCEPT !.isPlaying = TRUE, !.audioQueue = Tail(@),
                   !.thrown = @ + 1]
    ELSE [p EXCEPT !.isPlaying = TRUE,
                   !.audioQueue = Tail(@),
                   !.sources = @ \cup {Head(p.audioQueue)},
                   !.startLog = Append(@, Head(p.audioQueue))]

\* playChunk after `await this.initialize()`: decode, push, start if idle.
\* A decode failure, a rejected resume() and the "No audio context" throw of
\* pcm16ToAudioBuffer all end in the catch block.
playChunkContinue(p, c) ==
    IF ~c.ok \/ p.audioContext = "null"
    THEN [p EXCEPT !.errorLog = @ + 1, !.failed = @ \cup {c.id}]
    ELSE LET q == [p EXCEPT !.audioQueue = Append(@, c.id)]
         IN  IF ~q.isPlaying THEN playNext(q) ELSE q

\* playChunk up to its first suspension: initialize() awaits resume() only
\* while the context reports "suspended".
playChunk(p, c) ==
    IF p.audioContext = "null"
    THEN [p EXCEPT !.errorLog = @ + 1]
    ELSE IF p.ctxState = "suspended"
    THEN [p EXCEPT !.resumePromises = Append(@, c)]
    ELSE playChunkContinue(p, c)

stopAll(p) == [p EXCEPT !.audioQueue = <<>>, !.isPlaying = FALSE]

\* close() without `this.audioContext = null`
closeKeepingContext(p) ==
    LET q == stopAll(p)
    IN  IF q.audioContext # "null"
        THEN [q EXCEPT !.ctxState = "closed", !.closeCalls = @ + 1]
        ELSE q

\* close() without the `if (this.audioContext)` guard: on a null context
\* `this.audioContext.close()` throws.
closeUnguarded(p) ==
    LET q == stopAll(p)
    IN  IF q.audioContext # "null"
        THEN [q EXCEPT !.audioContext = "null", !.ctxState = "closed",
                       !.closeCalls = @ + 1]
        ELSE [q EXCEPT !.thrown = @ + 1]

close(p) ==
    LET q == stopAll(p)
    IN  IF q.audioContext # "null"
        THEN [q EXCEPT !.audioContext = "null", !.ctxState = "closed",
                       !.closeCalls = @ + 1]
        ELSE q

\* source.onended that does not call playNext
onendedWithoutNext(p, c) == [p EXCEPT !.sources = @ \ {c}]

\* source.onended
onended(p, c) == playNext([p EXCEPT !.sources = @ \ {c}])

\* Sources that are audible: started, not ended, context not closed.
rendering(p) == IF p.ctxState = "closed" THEN {} ELSE p.sources

\* ---- platform events of the AudioContext
\* The context starts rendering: state becomes "running".
ContextRunning ==
    /\ player.audioContext = "open"
    /\ player.ctxState = "suspended"
    /\ player' = [player EXCEPT !.ctxState = "running"]
    /\ UNCHANGED <<arrived, sessionVars, pageVars>>

\* The oldest pending resume() promise settles (resolved once the context
\* runs, resolved or rejected once it is closed) and its playChunk continues.
ResumeSettled ==
    /\ player.resumePromises # <<>>
    /\ player.ctxState # "suspended"
    /\ player' = playChunkContinue(
                    [player EXCEPT !.resumePromises = Tail(@)],
                    Head(player.resumePromises))
    /\ UNCHANGED <<arrived, sessionVars, pageVars>>

SourceEnded ==
    /\ \E c \in player.sources : player' = onended(player, c)
    /\ UNCHANGED <<arrived, sessionVars, pageVars>>

\* ---- direct calls of the AudioPlayer's public methods
PlayChunkCall ==
    /\ arrived < MaxChunks
    /\ \E ok \in BOOLEAN :
         player' = playChunk(player, Chunk(arrived + 1, ok))
    /\ arrived' = arrived + 1
    /\ UNCHANGED <<sessionVars, pageVars>>

StopAllCall ==
    /\ player' = stopAll(player)
    /\ UNCHANGED <<arrived, sessionVars, pageVars>>

CloseCall ==
    /\ player' = close(player)
    /\ UNCHANGED <<arrived, sessionVars, pageVars>>

\* -------------------------------------------------------- useVoiceInterview
InitialState ==
    [status |-> "connecting", currentQuestion |-> <<>>, questionIndex |-> 0,
     aiSpeaking |-> FALSE, interviewId |-> NULL]

Msg(type, index, text, audio, id) ==
    [type |-> type, index |-> index, text |-> text, audio |-> audio,
     interview_id |-> id]

NoMsg == Msg("none", 0, <<>>, FALSE, NULL)

DeltaTexts == {<<"a">>, <<"b">>}

\* message.index of a question and message.interview_id of an ended message
QuestionIndices == {1, 2}
InterviewIds == {41, 42}

\* The inbound messages the server may send, one of each kind per field value.
Messages ==
    {Msg("ready", 0, <<>>, FALSE, NULL)}
    \cup {Msg("question", i, <<>>, FALSE, NULL) : i \in QuestionIndices}
    \cup {Msg("ai_audio", 0, <<>>, ok, NULL) : ok \in BOOLEAN}
    \cup {Msg("ai_transcript_delta", 0, t, FALSE, NULL) : t \in DeltaTexts}
    \cup {Msg("ai_done_speaking", 0, <<>>, FALSE, NULL)}
    \cup {Msg("ended", 0, <<>>, FALSE, id) : id \in InterviewIds}
    \cup {Msg("error", 0, <<>>, FALSE, NULL)}
    \cup {Msg("ping", 0, <<>>, FALSE, NULL)}

\* handleMessage with a default case that resets the session
handleMessageResettingOnUnknown(s, m) ==
    CASE m.type = "ready" -> [s EXCEPT !.status = "ready"]
      [] m.type = "question" ->
            [s EXCEPT !.status = "active", !.currentQuestion = <<>>,
                      !.questionIndex = m.index, !.aiSpeaking = TRUE]
      [] m.type = "ai_transcript_delta" ->
            [s EXCEPT !.currentQuestion = @ \o m.text]
      [] m.type = "ai_done_speaking" -> [s EXCEPT !.aiSpeaking = FALSE]
      [] m.type = "ended" ->
            [s EXCEPT !.status = "ended", !.interviewId = m.interview_id]
      [] m.type \in {"ai_audio", "error"} -> s
      [] OTHER -> InitialState

\* handleMessage: the updateState call of each case.
handleMessage(s, m) ==
    CASE m.type = "ready" -> [s EXCEPT !.status = "ready"]
      [] m.type = "question" ->
            [s EXCEPT !.status = "active", !.currentQuestion = <<>>,
                      !.questionIndex = m.index, !.aiSpeaking = TRUE]
      [] m.type = "ai_transcript_delta" ->
            [s EXCEPT !.currentQuestion = @ \o m.text]
      [] m.type = "ai_done_speaking" -> [s EXCEPT !.aiSpeaking = FALSE]
      [] m.type = "ended" ->
            [s EXCEPT !.status = "ended", !.interviewId = m.interview_id]
      [] OTHER -> s

\* handleMessage case 'ai_audio': forwarded whenever a player is referenced.
handleAudio(ref, p, m, n) ==
    IF m.type = "ai_audio" /\ ref THEN playChunk(p, Chunk(n, m.audio)) ELSE p

\* connect(): constructs the AudioPlayer and the WebSocket, setWs(websocket).
Connect ==
    /\ wsReadyState = "NONE"
    /\ \E ctx \in {"suspended", "running"} : player' = NewAudioPlayer(ctx)
    /\ audioPlayerRef' = TRUE
    /\ wsReadyState' = "CONNECTING"
    /\ ws' = TRUE
    /\ UNCHANGED <<commandCalls, state, arrived, msgCount, lastMsg, pageVars>>

\* websocket.onopen
WsOpen ==
    /\ wsReadyState = "CONNECTING"
    /\ wsReadyState' = "OPEN"
    /\ UNCHANGED <<state, audioPlayerRef, ws, commandCalls, msgCount, lastMsg, audioVars,
                   pageVars>>

\* websocket.onmessage for a message drawn from `msgs`, at most `max` per run
Deliver(msgs, max) ==
    /\ wsReadyState = "OPEN"
    /\ msgCount < max
    /\ \E m \in msgs :
         /\ m.type = "ai_audio" => arrived < MaxChunks
         /\ state' = handleMessage(state, m)
         /\ player' = handleAudio(audioPlayerRef, player, m, arrived + 1)
         /\ arrived' = IF m.type = "ai_audio" /\ audioPlayerRef
                       THEN arrived + 1 ELSE arrived
         /\ lastMsg' = m
    /\ msgCount' = msgCount + 1
    /\ UNCHANGED <<audioPlayerRef, wsReadyState, ws, commandCalls, pageVars>>

OnMessage == Deliver(Messages, MaxMsgs)

\* cleanup() as closed over by connect(): connect is memoised on [sessionId],
\* so the cleanup it calls is the first render's, whose `ws` state is null.
cleanupPlayer(ref, p) == IF ref THEN close(p) ELSE p

\* websocket.onclose: the socket is closed by the peer or the network.
WsClose ==
    /\ wsReadyState \in {"CONNECTING", "OPEN"}
    /\ wsReadyState' = "CLOSED"
    /\ player' = cleanupPlayer(audioPlayerRef, player)
    /\ audioPlayerRef' = FALSE
    /\ UNCHANGED <<state, ws, commandCalls, msgCount, lastMsg, arrived,
                   pageVars>>

\* ------------------------------------------------------------ interview page
\* Strings are sequences of one-character strings.
RECURSIVE TrimStart(_)
TrimStart(s) ==
    IF s # <<>> /\ Head(s) = " " THEN TrimStart(Tail(s)) ELSE s

RECURSIVE TrimEnd(_)
TrimEnd(s) ==
    IF s # <<>> /\ s[Len(s)] = " "
    THEN TrimEnd(SubSeq(s, 1, Len(s) - 1)) ELSE s

\* trim() that returns its argument
TrimNothing(s) == s

\* String.prototype.trim
Trim(s) == TrimEnd(TrimStart(s))

\* String.prototype.split(' '); `cur` is the word being read.
RECURSIVE Split(_, _)
Split(s, cur) ==
    IF s = <<>> THEN <<cur>>
    ELSE IF Head(s) = " " THEN <<cur>> \o Split(Tail(s), <<>>)
    ELSE Split(Tail(s), Append(cur, Head(s)))

\* word.replace(/[.,!?]/g, '')
Clean(w) == SelectSeq(w, LAMBDA ch : ch \notin {".", ",", "!", "?"})

FillerWords ==
    {<<"u", "m">>, <<"u", "h">>, <<"l", "i", "k", "e">>,
     <<"y", "o", "u", " ", "k", "n", "o", "w">>,
     <<"b", "a", "s", "i", "c", "a", "l", "l", "y">>,
     <<"l", "i", "t", "e", "r", "a", "l", "l", "y">>}

\* The transcripts a recognizer may deliver: "hi", "um" and a blank one.
FragmentTexts == {<<"h", "i">>, <<"u", "m">>, <<" ">>}

\* Date.now()
DateNow == EpochMs + now

\* useVideoRecorder.logEvent; the timestamp is kept in milliseconds (the code
\* divides it by 1000).
logEvent(tl, type, data, severity) ==
    Append(tl, [timestamp |-> DateNow - startTimeRef, type |-> type,
                data |-> data, severity |-> severity])

\* getTimeline that leaves out the newest event
getTimelineWithoutLast(tl) ==
    IF tl = <<>> THEN tl ELSE SubSeq(tl, 1, Len(tl) - 1)

\* useVideoRecorder.getTimeline: the array itself, serialised by the upload
\* in the same task.
getTimeline(tl) == tl

\* handleTranscript: the forEach over the words of a final fragment.
RECURSIVE logFillers(_, _)
logFillers(tl, words) ==
    IF words = <<>> THEN tl
    ELSE logFillers(
            IF Clean(Head(words)) \in FillerWords
            THEN logEvent(tl, "filler_word", Clean(Head(words)), "warning")
            ELSE tl,
            Tail(words))

\* clearTimeout(id); `if (silenceTimerRef.current)` skips the null id 0.
clearTimeout(tm, id) == {t \in tm : t.id # id}

\* setTimeout(callback, delay) returning id; armedIn records the session
\* status at the call.
setTimeout(tm, id, delay) ==
    tm \cup {[id |-> id, due |-> now + delay, armedIn |-> state.status]}

\* sendTranscript without the test of the socket
sendTranscriptUnguarded(ob, transcript) ==
    Append(ob, [type |-> "response_complete", transcript |-> transcript])

\* useVoiceInterview.sendTranscript
sendTranscript(ob, transcript) ==
    IF ws /\ wsReadyState = "OPEN"
    THEN Append(ob, [type |-> "response_complete", transcript |-> transcript])
    ELSE ob

\* useVoiceInterview.endInterview
endInterview(ob) ==
    IF ws /\ wsReadyState = "OPEN" THEN Append(ob, [type |-> "end"]) ELSE ob

\* The page calls sendTranscript(transcript).
SendTranscriptCall ==
    /\ commandCalls < MaxCommands
    /\ \E transcript \in FragmentTexts :
         outbox' = sendTranscript(outbox, transcript)
    /\ commandCalls' = commandCalls + 1
    /\ UNCHANGED <<mp, rp, az, sr, endVars, now, mounted, camera,
                   recognizerLive, transcriptBufferRef, silenceTimerRef,
                   timers, timerSeq, candidateSpeaking, fragCount, fired,
                   lastFinalAt, pendingFrags, recorderVars, state,
                   audioPlayerRef, wsReadyState, ws, msgCount, lastMsg,
                   audioVars>>

\* The page calls endInterview().
EndInterviewCall ==
    /\ commandCalls < MaxCommands
    /\ outbox' = endInterview(outbox)
    /\ commandCalls' = commandCalls + 1
    /\ UNCHANGED <<mp, rp, az, sr, endVars, now, mounted, camera,
                   recognizerLive, transcriptBufferRef, silenceTimerRef,
                   timers, timerSeq, candidateSpeaking, fragCount, fired,
                   lastFinalAt, pendingFrags, recorderVars, state,
                   audioPlayerRef, wsReadyState, ws, msgCount, lastMsg,
                   audioVars>>

\* handleTranscript(text, isFinal)
handleTranscript(text, isFinal) ==
    IF isFinal
    THEN /\ transcriptBufferRef' = transcriptBufferRef \o text \o <<" ">>
         /\ timelineRef' = logFillers(timelineRef, Split(text, <<>>))
         /\ timers' = setTimeout(clearTimeout(timers, silenceTimerRef),
                                 timerSeq + 1, SilenceThresholdMs)
         /\ silenceTimerRef' = timerSeq + 1
         /\ timerSeq' = timerSeq + 1
         /\ lastFinalAt' = now
         /\ pendingFrags' = Append(pendingFrags, text)
    ELSE UNCHANGED <<transcriptBufferRef, timelineRef, timers,
                     silenceTimerRef, timerSeq, lastFinalAt, pendingFrags>>

\* A timer that is due runs before later events and before the clock moves.
NoTimerDue ==
    /\ \A t \in timers : t.due > now
    /\ rp.timerDue = NULL \/ rp.timerDue > now

Tick ==
    /\ now < MaxTime
    /\ NoTimerDue
    /\ now' = now + TickMs
    /\ UNCHANGED <<mp, rp, az, sr, endVars, mounted, camera, recognizerLive, turnVars, recorderVars,
                   sessionVars, audioVars>>

\* initCamera: the <video id="interview-video"> element is rendered only
\* while status is 'active' and the upload panel is hidden; until then
\* initCamera re-arms itself every 300 ms.  Once the element is there
\* getUserMedia succeeds and startRecording runs, or it fails.
InitCamera ==
    /\ mounted
    /\ state.status = "active"
    /\ ~showUpload
    /\ camera = "none"
    /\ \E got \in BOOLEAN :
         /\ camera' = IF got THEN "active" ELSE "failed"
         /\ startTimeRef' = IF got THEN DateNow ELSE startTimeRef
         /\ recorder' = IF got THEN "recording" ELSE recorder
    /\ UNCHANGED <<mp, rp, az, sr, showUpload, endPending, uploaded,
                   uploadCalls, endHandledFor,
                   uploadedTimeline, now, mounted,
                   recognizerLive, turnVars, timelineRef,
                   sessionVars, audioVars>>

\* init, run by setTimeout(init, 500): `await initCamera()` returns at once
\* while the video element is missing, then voiceInterview.connect() runs.
\* The timeout is not cleared by the page's cleanup.
PageConnect == Connect

\* The messages that move the session status, one of each kind.
StatusMessages ==
    {m \in Messages : /\ m.type \in {"ready", "question", "ended"}
                      /\ m.index <= 1
                      /\ m.interview_id \in {NULL, 41}}

PageOnMessage == Deliver(StatusMessages, MaxPageMsgs)

\* useSpeechRecognition({enabled: status === 'active'}): the commit that
\* follows a status change starts the recognizer.
EnableCapture ==
    /\ mounted
    /\ state.status = "active"
    /\ ~recognizerLive
    /\ recognizerLive' = TRUE
    /\ UNCHANGED <<mp, rp, az, sr, endVars, now, mounted, camera, turnVars, recorderVars, sessionVars,
                   audioVars>>

\* The asynchronous stop requested on disable or unmount completes.
RecognizerStopped ==
    /\ recognizerLive
    /\ state.status # "active" \/ ~mounted
    /\ recognizerLive' = FALSE
    /\ UNCHANGED <<mp, rp, az, sr, endVars, now, mounted, camera, turnVars, recorderVars, sessionVars,
                   audioVars>>

\* The recognizer delivers a final result: onTranscript(text, true), then
\* onSpeakingChange(false).
FinalFragment ==
    /\ recognizerLive
    /\ fragCount < MaxFragments
    /\ NoTimerDue
    /\ \E text \in FragmentTexts : handleTranscript(text, TRUE)
    /\ candidateSpeaking' = FALSE
    /\ fragCount' = fragCount + 1
    /\ UNCHANGED <<mp, rp, az, sr, endVars, now, mounted, camera, recognizerLive, outbox, fired,
                   startTimeRef, sessionVars, audioVars>>

\* The recognizer delivers an interim result: onSpeakingChange(true), then
\* onTranscript(text, false).
InterimFragment ==
    /\ recognizerLive
    /\ fragCount < MaxFragments
    /\ NoTimerDue
    /\ \E text \in FragmentTexts : handleTranscript(text, FALSE)
    /\ candidateSpeaking' = TRUE
    /\ fragCount' = fragCount + 1
    /\ UNCHANGED <<mp, rp, az, sr, endVars, now, mounted, camera, recognizerLive, outbox, fired,
                   startTimeRef, sessionVars, audioVars>>

\* The callback handed to setTimeout by handleTranscript.
SilenceTimerFire ==
    /\ \E t \in timers :
         /\ now >= t.due
         /\ timers' = timers \ {t}
    /\ fired' = fired + 1
    /\ IF Trim(transcriptBufferRef) # <<>>
       THEN /\ outbox' = sendTranscript(outbox, Trim(transcriptBufferRef))
            /\ commandCalls' = commandCalls + 1
            /\ transcriptBufferRef' = <<>>
            /\ candidateSpeaking' = FALSE
            /\ pendingFrags' = <<>>
       ELSE UNCHANGED <<outbox, commandCalls, transcriptBufferRef,
                        candidateSpeaking, pendingFrags>>
    /\ UNCHANGED <<mp, rp, az, sr, endVars, now, mounted, camera, recognizerLive, silenceTimerRef,
                   timerSeq, fragCount, lastFinalAt, recorderVars,
                   state, audioPlayerRef, wsReadyState, ws, msgCount,
                   lastMsg, audioVars>>

\* The interview-end effect on [status, interviewId]: the commit that
\* follows status='ended' with an interviewId the effect has not run for
\* runs handleInterviewEnd up to `await stopRecording()`.  With no
\* MediaRecorder the promise resolves at once and the upload is called; on a
\* recording one, stop() is called and the stop event is awaited; on one
\* that was stopped before, onstop is replaced and stop() throws, so the
\* call ends in its catch block and the earlier call is never resumed.
HandleInterviewEnd ==
    /\ mounted
    /\ state.status = "ended"
    /\ state.interviewId # NULL
    /\ state.interviewId # endHandledFor
    /\ showUpload' = TRUE
    /\ endHandledFor' = state.interviewId
    /\ IF recorder = "recording"
       THEN /\ recorder' = "stopping"
            /\ endPending' = state.interviewId
            /\ UNCHANGED <<uploaded, uploadCalls, uploadedTimeline>>
       ELSE IF recorder = "inactive"
       THEN /\ uploaded' = state.interviewId
            /\ uploadCalls' = uploadCalls + 1
            /\ uploadedTimeline' = getTimeline(timelineRef)
            /\ UNCHANGED <<recorder, endPending>>
       ELSE /\ endPending' = NULL
            /\ UNCHANGED <<recorder, uploaded, uploadCalls,
                           uploadedTimeline>>
    /\ UNCHANGED <<mp, rp, az, sr, now, mounted, camera, recognizerLive, turnVars,
                   recorderVars, sessionVars, audioVars>>

\* mediaRecorder.onstop: stopRecording resolves and handleInterviewEnd hands
\* the blob, the timeline and the duration to UploadService.
RecorderOnStop ==
    /\ recorder = "stopping"
    /\ recorder' = "stopped"
    /\ IF endPending # NULL
       THEN /\ uploaded' = endPending
            /\ uploadCalls' = uploadCalls + 1
            /\ uploadedTimeline' = getTimeline(timelineRef)
       ELSE UNCHANGED <<uploaded, uploadCalls, uploadedTimeline>>
    /\ endPending' = NULL
    /\ UNCHANGED <<mp, rp, az, sr, showUpload, endHandledFor, now, mounted, camera, recognizerLive,
                   turnVars, recorderVars, sessionVars, audioVars>>

\* videoRef.current: the page creates videoRef but its <video> element is
\* rendered with id="interview-video" and no ref attribute; initCamera sets
\* srcObject on the element found by id, so videoRef.current stays null.
videoRefAttached == FALSE

\* cleanup: `if (videoRef.current?.srcObject)` stop every track of the stream
stopTracks(cam, attached) ==
    IF attached /\ cam = "active" THEN "released" ELSE cam

\* The page's cleanup (effect cleanup on unmount): clears the silence timer,
\* calls voiceInterview.cleanup() and speechRecognition.stop().
Unmount ==
    /\ mounted
    /\ mounted' = FALSE
    /\ timers' = clearTimeout(timers, silenceTimerRef)
    /\ player' = cleanupPlayer(audioPlayerRef, player)
    /\ audioPlayerRef' = FALSE
    /\ camera' = stopTracks(camera, videoRefAttached)
    /\ UNCHANGED <<mp, rp, az, sr, endVars, now, recognizerLive, transcriptBufferRef,
                   silenceTimerRef, timerSeq, outbox, candidateSpeaking,
                   fragCount, fired, lastFinalAt, pendingFrags, recorderVars,
                   state, wsReadyState, ws, commandCalls, msgCount, lastMsg,
                   arrived>>

\* ------------------------------------- useSpeechRecognition (Azure Speech SDK)
\* The hook and what the platform holds for it are the record `az`:
\*   enabled, mounted      the `enabled` prop of the last commit; hook mounted
\*   configured            NEXT_PUBLIC_AZURE_SPEECH_KEY and _REGION are set
\*   enabledRef, manuallyStoppedRef, restartTimeoutRef (0 for null),
\*   restartAttemptRef, recognizerRef (0 for null)      the refs of the hook
\*   isListening, error    the React state of the hook
\*   speaking, heard       last onSpeakingChange value; onTranscript calls
\*   sdk                   the SDK script: "absent" | "loading" | "loaded" |
\*                         "failed"
\*   loadWaiters           startRecognition calls suspended at
\*                         `await loadAzureSpeechSDK()`
\*   recognizers           every SpeechRecognizer created, by creation order:
\*                         [phase: "started" | "stopping" | "closed",
\*                          startPending: the start promise is unsettled]
\*   restartTimers         setTimeout table of the restart timers
\*   restartSeq            restart timer ids handed out so far
AzureMounted(configured) ==
    [enabled |-> FALSE, mounted |-> TRUE, configured |-> configured,
     enabledRef |-> FALSE, manuallyStoppedRef |-> TRUE,
     restartTimeoutRef |-> 0, restartAttemptRef |-> 0, recognizerRef |-> 0,
     isListening |-> FALSE, error |-> "null", speaking |-> FALSE,
     heard |-> <<>>, sdk |-> "absent", loadWaiters |-> 0,
     recognizers |-> <<>>, restartTimers |-> {}, restartSeq |-> 0]

Min(a, b) == IF a < b THEN a ELSE b

clearRestartTimer(h) ==
    IF h.restartTimeoutRef # 0
    THEN [h EXCEPT !.restartTimers =
                       {t \in @ : t.id # h.restartTimeoutRef},
                   !.restartTimeoutRef = 0]
    ELSE h

stopAndDisposeRecognizer(h) ==
    LET r == h.recognizerRef IN
    IF r # 0
    THEN [h EXCEPT !.recognizerRef = 0,
                   !.recognizers[r].phase =
                       IF @ = "started" THEN "stopping" ELSE @]
    ELSE h

\* scheduleRestart without the Math.min(30000, ...) cap
scheduleRestartUncapped(h, reason) ==
    IF ~h.enabledRef \/ h.manuallyStoppedRef THEN h
    ELSE IF h.restartTimeoutRef # 0 THEN h
    ELSE LET attempt == h.restartAttemptRef + 1
             delayMs == IF reason \in {"network", "service"}
                        THEN 1000 * 2 ^ Min(attempt, 5)
                        ELSE 1000
             id == h.restartSeq + 1
         IN [h EXCEPT !.restartAttemptRef = attempt,
                      !.restartSeq = id,
                      !.restartTimeoutRef = id,
                      !.restartTimers =
                          @ \cup {[id |-> id, delayMs |-> delayMs,
                                   reason |-> reason]}]

\* scheduleRestart without the `if (restartTimeoutRef.current) return`
scheduleRestartWhilePending(h, reason) ==
    IF ~h.enabledRef \/ h.manuallyStoppedRef THEN h
    ELSE LET attempt == h.restartAttemptRef + 1
             delayMs == IF reason \in {"network", "service"}
                        THEN Min(30000, 1000 * 2 ^ Min(attempt, 5))
                        ELSE 1000
             id == h.restartSeq + 1
         IN [h EXCEPT !.restartAttemptRef = attempt,
                      !.restartSeq = id,
                      !.restartTimeoutRef = id,
                      !.restartTimers =
                          @ \cup {[id |-> id, delayMs |-> delayMs,
                                   reason |-> reason]}]

scheduleRestart(h, reason) ==
    IF ~h.enabledRef \/ h.manuallyStoppedRef THEN h
    ELSE IF h.restartTimeoutRef # 0 THEN h
    ELSE LET attempt == h.restartAttemptRef + 1
             delayMs == IF reason \in {"network", "service"}
                        THEN Min(30000, 1000 * 2 ^ Min(attempt, 5))
                        ELSE 1000
             id == h.restartSeq + 1
         IN [h EXCEPT !.restartAttemptRef = attempt,
                      !.restartSeq = id,
                      !.restartTimeoutRef = id,
                      !.restartTimers =
                          @ \cup {[id |-> id, delayMs |-> delayMs,
                                   reason |-> reason]}]

\* startRecognition after `await loadAzureSpeechSDK()` returned the SDK:
\* create the recognizer, attach the handlers, issue the start.
startRecognitionContinue(h) ==
    [h EXCEPT !.recognizers =
                  Append(@, [phase |-> "started", startPending |-> TRUE]),
              !.recognizerRef = Len(h.recognizers) + 1]

\* the catch block of startRecognition
startRecognitionCatch(h, message) ==
    scheduleRestart([h EXCEPT !.isListening = FALSE, !.speaking = FALSE,
                              !.error = message], "service")

\* startRecognition up to its first suspension
startRecognition(h) ==
    IF ~h.enabledRef \/ h.manuallyStoppedRef THEN h
    ELSE LET h1 == stopAndDisposeRecognizer(clearRestartTimer(h)) IN
         IF ~h1.configured THEN [h1 EXCEPT !.error = "config"]
         ELSE IF h1.sdk = "loaded" THEN startRecognitionContinue(h1)
         ELSE [h1 EXCEPT !.sdk = IF @ = "absent" THEN "loading" ELSE @,
                         !.loadWaiters = @ + 1]

stop(h) ==
    [stopAndDisposeRecognizer(clearRestartTimer(
         [h EXCEPT !.manuallyStoppedRef = TRUE]))
       EXCEPT !.isListening = FALSE, !.speaking = FALSE]

\* the function returned by the [enabled] effect
enabledEffectCleanup(h) ==
    [stopAndDisposeRecognizer(clearRestartTimer(
         [h EXCEPT !.manuallyStoppedRef = TRUE]))
       EXCEPT !.isListening = FALSE, !.speaking = FALSE]

\* the effects of a commit in which `enabled` is b
enabledEffect(h, b) ==
    LET h1 == [h EXCEPT !.enabled = b, !.enabledRef = b,
                        !.manuallyStoppedRef = ~b] IN
    IF b THEN startRecognition(h1)
    ELSE [stopAndDisposeRecognizer(clearRestartTimer(h1))
            EXCEPT !.isListening = FALSE, !.speaking = FALSE]

RECURSIVE resumeWaiters(_, _, _)
resumeWaiters(h, n, ok) ==
    IF n = 0 THEN h
    ELSE resumeWaiters(IF ok THEN startRecognitionContinue(h)
                       ELSE startRecognitionCatch(h, "load"), n - 1, ok)

CanStart(h) == Len(h.recognizers) + h.loadWaiters < MaxRecognizers
CanRetry(h) == h.restartAttemptRef < MaxAttempts
Emitting(h) ==
    {r \in 1..Len(h.recognizers) :
        h.recognizers[r].phase \in {"started", "stopping"}}
CancellationReasons == {"EndOfStream", "network", "service", "other"}

\* ---- React commits and calls of the page
SetEnabled ==
    \E b \in BOOLEAN :
        /\ az.mounted
        /\ b # az.enabled
        /\ b => CanStart(az)
        /\ az' = enabledEffect(enabledEffectCleanup(az), b)
        /\ UNCHANGED <<sessionVars, audioVars, corePageVars, sr, rp, mp>>

StopCall ==
    /\ az.mounted
    /\ az' = stop(az)
    /\ UNCHANGED <<sessionVars, audioVars, corePageVars, sr, rp, mp>>

HookUnmount ==
    /\ az.mounted
    /\ az' = [enabledEffectCleanup(az) EXCEPT !.mounted = FALSE]
    /\ UNCHANGED <<sessionVars, audioVars, corePageVars, sr, rp, mp>>

\* ---- platform events
\* The SDK script's load or error event: every suspended startRecognition
\* resumes, in the order the calls were made.
SdkLoadDone ==
    \E ok \in BOOLEAN :
        /\ az.sdk = "loading"
        /\ ok \/ CanRetry(az)
        /\ az' = resumeWaiters(
                     [az EXCEPT !.sdk = IF ok THEN "loaded" ELSE "failed",
                                !.loadWaiters = 0],
                     az.loadWaiters, ok)
        /\ UNCHANGED <<sessionVars, audioVars, corePageVars, sr, rp, mp>>

StartResolved ==
    \E r \in Emitting(az) :
        /\ az.recognizers[r].startPending
        /\ az' = [az EXCEPT !.recognizers[r].startPending = FALSE,
                            !.isListening = TRUE]
        /\ UNCHANGED <<sessionVars, audioVars, corePageVars, sr, rp, mp>>

\* the start promise rejects; at most maxAttempts restarts are counted
StartRejectedUpTo(maxAttempts) ==
    \E r \in Emitting(az) :
        /\ az.recognizers[r].startPending
        /\ az.restartAttemptRef < maxAttempts
        /\ az' = startRecognitionCatch(
                     [az EXCEPT !.recognizers[r].startPending = FALSE],
                     "start")
        /\ UNCHANGED <<sessionVars, audioVars, corePageVars, sr, rp, mp>>

StartRejected == StartRejectedUpTo(MaxAttempts)

\* the callbacks of stopContinuousRecognitionAsync: recognizer.close()
StopCompleted ==
    \E r \in Emitting(az) :
        /\ az.recognizers[r].phase = "stopping"
        /\ az' = [az EXCEPT !.recognizers[r].phase = "closed",
                            !.recognizers[r].startPending = FALSE]
        /\ UNCHANGED <<sessionVars, audioVars, corePageVars, sr, rp, mp>>

recognizing ==
    \E r \in Emitting(az), raw \in FragmentTexts :
        /\ Len(az.heard) < MaxHeard
        /\ LET text == Trim(raw) IN
           az' = IF text = <<>> THEN az
                 ELSE [az EXCEPT !.isListening = TRUE, !.speaking = TRUE,
                                 !.heard = Append(@, [text |-> text,
                                                      isFinal |-> FALSE])]
        /\ UNCHANGED <<sessionVars, audioVars, corePageVars, sr, rp, mp>>

recognized ==
    \E r \in Emitting(az), raw \in FragmentTexts, speech \in BOOLEAN :
        /\ Len(az.heard) < MaxHeard
        /\ LET text == Trim(raw) IN
           az' = [az EXCEPT !.speaking = FALSE,
                            !.heard = IF speech /\ text # <<>>
                                      THEN Append(@, [text |-> text,
                                                      isFinal |-> TRUE])
                                      ELSE @]
        /\ UNCHANGED <<sessionVars, audioVars, corePageVars, sr, rp, mp>>

sessionStarted ==
    \E r \in Emitting(az) :
        /\ az' = [az EXCEPT !.isListening = TRUE, !.error = "null",
                            !.restartAttemptRef = 0]
        /\ UNCHANGED <<sessionVars, audioVars, corePageVars, sr, rp, mp>>

sessionStopped ==
    \E r \in Emitting(az) :
        /\ CanRetry(az)
        /\ LET h == [az EXCEPT !.isListening = FALSE, !.speaking = FALSE] IN
           az' = IF ~h.enabledRef \/ h.manuallyStoppedRef THEN h
                 ELSE scheduleRestart(h, "normal")
        /\ UNCHANGED <<sessionVars, audioVars, corePageVars, sr, rp, mp>>

\* recognizer.canceled; at most maxAttempts restarts are counted
canceledUpTo(maxAttempts) ==
    \E r \in Emitting(az), reason \in CancellationReasons :
        /\ az.restartAttemptRef < maxAttempts
        /\ LET h == [az EXCEPT !.isListening = FALSE, !.speaking = FALSE]
               e == [h EXCEPT !.error = "canceled"] IN
           az' = IF reason = "EndOfStream" /\ ~h.manuallyStoppedRef
                 THEN scheduleRestart(h, "normal")
                 ELSE IF ~e.enabledRef \/ e.manuallyStoppedRef THEN e
                 ELSE IF reason \in {"network", "service"}
                      THEN scheduleRestart(e, reason)
                      ELSE e
        /\ UNCHANGED <<sessionVars, audioVars, corePageVars, sr, rp, mp>>

canceled == canceledUpTo(MaxAttempts)

\* the callback given to setTimeout by scheduleRestart
RestartTimerFireUpTo(maxRecognizers) ==
    \E t \in az.restartTimers :
        /\ Len(az.recognizers) + az.loadWaiters < maxRecognizers
        /\ az' = startRecognition(
                     [az EXCEPT !.restartTimers = @ \ {t},
                                !.restartTimeoutRef = 0])
        /\ UNCHANGED <<sessionVars, audioVars, corePageVars, sr, rp, mp>>

RestartTimerFire == RestartTimerFireUpTo(MaxRecognizers)

\* ---- the same hook with a recognizer whose every start fails
RetryStartRejected == StartRejectedUpTo(MaxRetries)

RetryTimerFire == RestartTimerFireUpTo(MaxRetries)

\* ---- the same hook with failures and successful session starts
RetryCanceled == canceledUpTo(MaxRetries)

\* ------------------------------------- useSpeechRecognition (Web Speech API)
\* The hook and its SpeechRecognition object are the record `sr`:
\*   enabled, mounted      the `enabled` prop of the last commit; hook mounted
\*   supported             window.SpeechRecognition exists (recognitionRef set)
\*   enabledRef, restartAttempts          the refs of the hook
\*   isListening, error    the React state of the hook
\*   speaking, heard       last onSpeakingChange value; onTranscript calls
\*   phase                 the recognition object: "idle" | "active" (started,
\*                         not ended) | "stopping" (stop() called, end event
\*                         not yet delivered)
\*   startPending          the start event of the current session is due
\*   onendAttached         recognition.onend is the hook's handler
\*   restartTimers         pending setTimeout(start, 1500) callbacks of onend
\*   noFailure             history: since capture was last enabled no session
\*                         has ended before its start event or with an error
WebSpeechMounted(supported) ==
    [enabled |-> FALSE, mounted |-> TRUE, supported |-> supported,
     enabledRef |-> FALSE, restartAttempts |-> 0,
     isListening |-> FALSE, error |-> "null", speaking |-> FALSE,
     heard |-> <<>>, phase |-> "idle", startPending |-> FALSE,
     onendAttached |-> supported, restartTimers |-> 0, noFailure |-> TRUE]

\* try { recognition.start() } catch {}: start() throws InvalidStateError
\* unless the object is idle.
recognitionStart(h) ==
    IF h.phase = "idle"
    THEN [h EXCEPT !.phase = "active", !.startPending = TRUE]
    ELSE h

\* recognition.stop(): ignored unless a session is active.
recognitionStop(h) ==
    IF h.phase = "active" THEN [h EXCEPT !.phase = "stopping"] ELSE h

\* the effects of a commit in which `enabled` is b
webSpeechEnabledEffect(h, b) ==
    LET h1 == [h EXCEPT !.enabled = b, !.enabledRef = b,
                        !.noFailure = IF b THEN TRUE ELSE @] IN
    IF ~h1.supported THEN h1
    ELSE IF b THEN recognitionStart([h1 EXCEPT !.restartAttempts = 0])
    ELSE recognitionStop(h1)

\* stop() returned by the hook
webSpeechStop(h) ==
    LET h1 == [h EXCEPT !.enabledRef = FALSE] IN
    IF h1.supported THEN recognitionStop(h1) ELSE h1

\* recognition.onend
onend(h) ==
    LET h1 == [h EXCEPT !.isListening = FALSE] IN
    IF ~h1.enabledRef THEN h1
    ELSE IF h1.restartAttempts >= MAX_RESTARTS
    THEN [h1 EXCEPT !.error = "Speech recognition failed"]
    ELSE [h1 EXCEPT !.restartAttempts = @ + 1, !.restartTimers = @ + 1]

\* recognition.onresult over the results of one event
RECURSIVE onresultLoop(_, _)
onresultLoop(heard, results) ==
    IF results = <<>> THEN heard
    ELSE onresultLoop(Append(heard, Head(results)), Tail(results))

onresult(h, results) ==
    [h EXCEPT !.heard = onresultLoop(@, results),
              !.speaking = \E i \in 1..Len(results) : ~results[i].isFinal]

\* The results one event may carry: one or two of [text, isFinal].
SpeechResults ==
    {[text |-> t, isFinal |-> f] : t \in FragmentTexts, f \in BOOLEAN}
ResultEvents ==
    {<<a>> : a \in SpeechResults}
        \cup {<<a, b>> : a \in SpeechResults, b \in SpeechResults}

\* ---- React commits and calls of the page
WebSpeechSetEnabled ==
    \E b \in BOOLEAN :
        /\ sr.mounted
        /\ b # sr.enabled
        /\ sr' = webSpeechEnabledEffect(sr, b)
        /\ UNCHANGED <<sessionVars, audioVars, corePageVars, az, rp, mp>>

WebSpeechStopCall ==
    /\ sr.mounted
    /\ sr' = webSpeechStop(sr)
    /\ UNCHANGED <<sessionVars, audioVars, corePageVars, az, rp, mp>>

\* cleanup of the mount effect: onend = null, recognition.stop()
WebSpeechUnmount ==
    /\ sr.mounted
    /\ sr' = IF sr.supported
             THEN recognitionStop([sr EXCEPT !.mounted = FALSE,
                                             !.onendAttached = FALSE])
             ELSE [sr EXCEPT !.mounted = FALSE]
    /\ UNCHANGED <<sessionVars, audioVars, corePageVars, az, rp, mp>>

\* ---- events of the SpeechRecognition object
RecognitionStarted ==
    /\ sr.phase \in {"active", "stopping"}
    /\ sr.startPending
    /\ sr' = [sr EXCEPT !.startPending = FALSE, !.isListening = TRUE]
    /\ UNCHANGED <<sessionVars, audioVars, corePageVars, az, rp, mp>>

RecognitionResult ==
    \E results \in ResultEvents :
        /\ sr.phase \in {"active", "stopping"}
        /\ ~sr.startPending
        /\ Len(sr.heard) + Len(results) <= MaxHeard
        /\ sr' = onresult(sr, results)
        /\ UNCHANGED <<sessionVars, audioVars, corePageVars, az, rp, mp>>

\* recognition.onerror; the end event follows
RecognitionError ==
    /\ sr.phase = "active"
    /\ sr' = [sr EXCEPT !.error = "event.error", !.phase = "stopping",
                        !.noFailure = FALSE]
    /\ UNCHANGED <<sessionVars, audioVars, corePageVars, az, rp, mp>>

\* the end event: after stop(), after an error, or on the recognizer's own
\* end of a segment
RecognitionEnded ==
    /\ sr.phase \in {"active", "stopping"}
    /\ sr.restartTimers < MaxPendingRestarts
    /\ LET h == [sr EXCEPT !.phase = "idle", !.startPending = FALSE,
                           !.noFailure = @ /\ ~sr.startPending] IN
       sr' = IF h.onendAttached THEN onend(h) ELSE h
    /\ UNCHANGED <<sessionVars, audioVars, corePageVars, az, rp, mp>>

\* the callback onend gave to setTimeout: try { recognition.start() }
WebRestartTimerFire ==
    /\ sr.restartTimers > 0
    /\ sr' = recognitionStart([sr EXCEPT !.restartTimers = @ - 1])
    /\ UNCHANGED <<sessionVars, audioVars, corePageVars, az, rp, mp>>

\* ------------------ useSpeechRecognition (the version in useMediaPipe.ts)
\* The hook and its SpeechRecognition object are the record `mp`:
\*   mounted, enabled      the component is mounted; the `enabled` prop of
\*                         the last commit
\*   supported             window.SpeechRecognition exists
\*   recognitionRef        recognitionRef.current is set
\*   phase                 "idle" | "starting" (start() called, the start
\*                         event pending) | "active" | "stopping" (stop()
\*                         called or an error raised, the end event pending)
\*   isListening, error    the React state
\*   speaking, heard       last onSpeakingChange value; onTranscript calls
\*   restartTimers         pending setTimeout callbacks of onend and onerror
MediaPipeSpeechMounted(supported) ==
    [mounted |-> TRUE, enabled |-> FALSE, supported |-> supported,
     recognitionRef |-> FALSE, phase |-> "idle", isListening |-> FALSE,
     error |-> "null", speaking |-> FALSE, heard |-> <<>>,
     restartTimers |-> 0]

\* recognition.start(): throws on an object that is already started
mpStart(h) == IF h.phase = "idle" THEN [h EXCEPT !.phase = "starting"] ELSE h

\* recognition.stop()
mpStop(h) ==
    IF h.phase \in {"starting", "active"}
    THEN [h EXCEPT !.phase = "stopping"] ELSE h

\* cleanup of the effect: recognitionRef.current.stop() when the ref is set
mpCleanup(h) == IF h.recognitionRef THEN mpStop(h) ELSE h

\* the effect on [enabled, onTranscript, onSpeakingChange]: cleanup of the
\* previous run, then the run for `enabled` = b
mpEnabledEffect(h, b) ==
    LET h1 == [mpCleanup(h) EXCEPT !.enabled = b] IN
    IF ~b THEN h1
    ELSE IF ~h1.supported
    THEN [h1 EXCEPT !.error = "Speech recognition not supported"]
    ELSE mpStart([h1 EXCEPT !.recognitionRef = TRUE])

\* onSpeakingChange(hasSpeech || finalText.length > 0)
mpSpeaking(results) ==
    \/ \E i \in 1..Len(results) : ~results[i].isFinal
    \/ \E i \in 1..Len(results) : results[i].isFinal

\* recognition.onresult over the results of one event
mpOnresult(h, results) ==
    [h EXCEPT !.heard = onresultLoop(@, results),
              !.speaking = mpSpeaking(results)]

MpSetEnabled ==
    \E b \in BOOLEAN :
        /\ mp.mounted
        /\ b # mp.enabled
        /\ mp' = mpEnabledEffect(mp, b)
        /\ UNCHANGED <<sessionVars, audioVars, corePageVars, az, sr, rp>>

\* stop() returned by the hook
MpStopCall ==
    /\ mp.mounted
    /\ mp.recognitionRef
    /\ mp' = [mpStop(mp) EXCEPT !.isListening = FALSE]
    /\ UNCHANGED <<sessionVars, audioVars, corePageVars, az, sr, rp>>

MpUnmount ==
    /\ mp.mounted
    /\ mp' = [mpCleanup(mp) EXCEPT !.mounted = FALSE]
    /\ UNCHANGED <<sessionVars, audioVars, corePageVars, az, sr, rp>>

\* recognition.onstart
MpStarted ==
    /\ mp.phase = "starting"
    /\ mp' = [mp EXCEPT !.phase = "active", !.isListening = TRUE]
    /\ UNCHANGED <<sessionVars, audioVars, corePageVars, az, sr, rp>>

\* recognition.onresult
MpResult ==
    \E results \in ResultEvents :
        /\ mp.phase \in {"active", "stopping"}
        /\ Len(mp.heard) + Len(results) <= MaxMpHeard
        /\ mp' = mpOnresult(mp, results)
        /\ UNCHANGED <<sessionVars, audioVars, corePageVars, az, sr, rp>>

\* recognition.onerror; on 'network' a timer restarts the recognition.  The
\* end event follows.
MpError ==
    \E network \in BOOLEAN :
        /\ mp.phase \in {"starting", "active"}
        /\ mp.restartTimers < MaxPendingRestarts
        /\ mp' = [mp EXCEPT !.error = "event.error", !.phase = "stopping",
                            !.restartTimers = IF network THEN @ + 1 ELSE @]
        /\ UNCHANGED <<sessionVars, audioVars, corePageVars, az, sr, rp>>

\* recognition.onend: the object exists only for a run of the effect with
\* enabled = true, so the `enabled` of its closure is true
MpEnded ==
    /\ mp.phase \in {"active", "stopping"}
    /\ mp.restartTimers < MaxPendingRestarts
    /\ mp' = [mp EXCEPT !.phase = "idle", !.isListening = FALSE,
                        !.restartTimers = @ + 1]
    /\ UNCHANGED <<sessionVars, audioVars, corePageVars, az, sr, rp>>

\* the callback given to setTimeout: try { recognition.start() }
MpRestartTimerFire ==
    /\ mp.restartTimers > 0
    /\ mp' = mpStart([mp EXCEPT !.restartTimers = @ - 1])
    /\ UNCHANGED <<sessionVars, audioVars, corePageVars, az, sr, rp>>

\* --------------------------------- the route page (app/interview/.../page.tsx)
\* page.tsx holds the whole session in one component.  The page and what
\* the platform holds for it are the record `rp`:
\*   mounted, initDone     the component is mounted; the 100 ms mount timer
\*                         has run initCamera, initAudio,
\*                         initSpeechRecognition and connectWebSocket
\*   status, interviewId   the React state of the last commit
\*   socket                "NONE" | "CONNECTING" | "OPEN" | "FAILED" (error
\*                         event dispatched, close event pending) | "CLOSED"
\*   camera                as the `camera` variable of the other page
\*   recorder              "none" (mediaRecorderRef.current is null) |
\*                         "recording" | "stopping" (stop() called, the stop
\*                         event pending) | "inactive"
\*   chunks                recordedChunksRef.current.length
\*   recognition           "none" (unsupported) | "idle" | "started"
\*   startTime             interviewStartTimeRef.current (epoch ms)
\*   timeline              timelineRef.current
\*   fetch                 the upload request: "none" | "ok" | "rejected" |
\*                         "error"
\*   navTimers             setTimeout(router.push('/feedback/..')) calls made
\*   navigated             "none" | "dashboard"
\*   msgs                  inbound messages handled so far
\*   finalTranscript       the `finalTranscript` variable of
\*                         initSpeechRecognition
\*   silenceTimerRef       silenceTimerRef.current: a timer id, 0 for null
\*   timerDue              clock value at which the pending silence timer
\*                         fires, NULL when none is pending
\*   timerSeq              silence timers armed so far
\*   speaking              the candidateSpeaking React state
\*   results, lastFinal    result events delivered so far; whether the last
\*                         one was final
\*   sent                  response_complete messages given to ws.send
\*   fired                 silence-timer callbacks run so far
RouteMounted(supported) ==
    [mounted |-> TRUE, initDone |-> FALSE, supported |-> supported,
     status |-> "connecting", interviewId |-> NULL, socket |-> "NONE",
     camera |-> "none", recorder |-> "none", chunks |-> 0,
     recognition |-> "none", startTime |-> 0, timeline |-> <<>>,
     fetch |-> "none", navTimers |-> 0, navigated |-> "none", msgs |-> 0,
     finalTranscript |-> <<>>, silenceTimerRef |-> 0, timerDue |-> NULL,
     timerSeq |-> 0, speaking |-> FALSE, results |-> 0, lastFinal |-> FALSE,
     sent |-> <<>>, fired |-> 0]

\* The React state seen by the functions the mount timer calls: they are the
\* first render's, so initCamera, startRecording, the onstop handler and
\* uploadRecording all read the interviewId of the first render.
RouteFirstRenderInterviewId == NULL

\* page.tsx renders <video id="interview-video"> without ref={videoRef}.
routeVideoRefAttached == FALSE

\* getCurrentTimestamp, in milliseconds (the code divides by 1000)
getCurrentTimestamp(r) == DateNow - r.startTime

\* the page's own logEvent
routeLogEvent(r, type) ==
    [r EXCEPT !.timeline =
                  Append(@, [timestamp |-> getCurrentTimestamp(r),
                             type |-> type])]

stopEverything(r) ==
    [r EXCEPT !.recorder = IF @ = "recording" THEN "stopping" ELSE @,
              !.recognition = IF @ = "started" THEN "idle" ELSE @,
              !.camera = stopTracks(@, routeVideoRefAttached)]

\* uploadRecording as called with the React state `id` in its closure; the
\* fetch settles with `outcome`.
uploadRecording(r, id, outcome) ==
    IF id = NULL \/ r.chunks = 0 THEN r
    ELSE [r EXCEPT !.fetch = outcome,
                   !.navTimers = IF outcome \in {"ok", "error"}
                                 THEN @ + 1 ELSE @]

FetchOutcomes == {"ok", "rejected", "error"}

RouteMessages ==
    {m \in Messages : /\ m.type \in {"ready", "question", "ended"}
                      /\ m.interview_id \in {NULL, 41}}

\* the page's handleMessage
routeHandleMessage(r, m) ==
    CASE m.type = "ready" ->
            [r EXCEPT !.status = "ready",
                      !.recognition = IF @ = "idle" THEN "started" ELSE @]
      [] m.type = "question" ->
            [routeLogEvent(r, "question_asked") EXCEPT !.status = "active"]
      [] m.type = "ended" ->
            stopEverything([r EXCEPT !.status = "ended",
                                     !.interviewId = m.interview_id])
      [] OTHER -> r

\* The mount effect's timer: initCamera finds no video element yet and
\* re-arms itself, initSpeechRecognition creates the recognition object,
\* connectWebSocket opens the socket.
RouteInitTimer ==
    /\ rp.mounted
    /\ ~rp.initDone
    /\ rp' = [rp EXCEPT !.initDone = TRUE,
                        !.recognition = IF rp.supported THEN "idle" ELSE @,
                        !.socket = "CONNECTING"]
    /\ UNCHANGED <<sessionVars, audioVars, corePageVars, az, sr, mp>>

\* initCamera once the video element is rendered (status 'active')
RouteInitCamera ==
    /\ rp.mounted
    /\ rp.initDone
    /\ rp.status = "active"
    /\ rp.camera = "none"
    /\ \E got \in BOOLEAN :
         rp' = IF got
               THEN [rp EXCEPT !.camera = "active", !.recorder = "recording",
                               !.startTime = DateNow]
               ELSE [rp EXCEPT !.camera = "failed"]
    /\ UNCHANGED <<sessionVars, audioVars, corePageVars, az, sr, mp>>

RouteWsOpen ==
    /\ rp.socket = "CONNECTING"
    /\ rp' = [rp EXCEPT !.socket = "OPEN"]
    /\ UNCHANGED <<sessionVars, audioVars, corePageVars, az, sr, mp>>

RouteOnMessage ==
    /\ rp.mounted
    /\ rp.socket = "OPEN"
    /\ rp.msgs < MaxRouteMsgs
    /\ \E m \in RouteMessages :
         rp' = [routeHandleMessage(rp, m) EXCEPT !.msgs = @ + 1]
    /\ UNCHANGED <<sessionVars, audioVars, corePageVars, az, sr, mp>>

\* websocket.onerror: alert, router.push('/dashboard')
RouteWsError ==
    /\ rp.socket \in {"CONNECTING", "OPEN"}
    /\ rp' = [rp EXCEPT !.socket = "FAILED", !.navigated = "dashboard"]
    /\ UNCHANGED <<sessionVars, audioVars, corePageVars, az, sr, mp>>

\* websocket.onclose
RouteWsClose ==
    /\ rp.socket \in {"CONNECTING", "OPEN", "FAILED"}
    /\ rp' = stopEverything([rp EXCEPT !.socket = "CLOSED"])
    /\ UNCHANGED <<sessionVars, audioVars, corePageVars, az, sr, mp>>

\* mediaRecorder.ondataavailable with a non-empty blob
RouteDataAvailable ==
    /\ rp.recorder \in {"recording", "stopping"}
    /\ rp.chunks < MaxBlobs
    /\ rp' = [rp EXCEPT !.chunks = @ + 1]
    /\ UNCHANGED <<sessionVars, audioVars, corePageVars, az, sr, mp>>

\* mediaRecorder.onstop: uploadRecording()
RouteRecorderOnStop ==
    /\ rp.recorder = "stopping"
    /\ \E outcome \in FetchOutcomes :
         rp' = uploadRecording([rp EXCEPT !.recorder = "inactive"],
                               RouteFirstRenderInterviewId, outcome)
    /\ UNCHANGED <<sessionVars, audioVars, corePageVars, az, sr, mp>>

\* SpeechRecognition ends by itself; the page sets no onend handler.
RouteRecognitionEnded ==
    /\ rp.recognition = "started"
    /\ rp' = [rp EXCEPT !.recognition = "idle"]
    /\ UNCHANGED <<sessionVars, audioVars, corePageVars, az, sr, mp>>

\* The `ws` React state seen by initSpeechRecognition, which the mount timer
\* calls: the first render's null.
RouteFirstRenderWs == FALSE

\* detectFillerWords(text, getCurrentTimestamp())
RECURSIVE detectFillerWords(_, _, _)
detectFillerWords(r, words, timestamp) ==
    IF words = <<>> THEN r
    ELSE detectFillerWords(
            IF Clean(Head(words)) \in FillerWords
            THEN [r EXCEPT !.timeline =
                               Append(@, [timestamp |-> timestamp,
                                          type |-> "filler_word"])]
            ELSE r,
            Tail(words), timestamp)

\* recognition.onresult for an event carrying one result
routeOnResult(r, text, isFinal) ==
    LET r1 == IF isFinal
              THEN [detectFillerWords(r, Split(text, <<>>),
                                      getCurrentTimestamp(r))
                      EXCEPT !.finalTranscript = @ \o text \o <<" ">>]
              ELSE r
    IN  [r1 EXCEPT !.silenceTimerRef = r.timerSeq + 1,
                   !.timerSeq = @ + 1,
                   !.timerDue = now + SilenceThresholdMs,
                   !.speaking = ~isFinal /\ text # <<>>,
                   !.results = @ + 1,
                   !.lastFinal = isFinal]

\* the callback given to setTimeout by recognition.onresult, with the `ws`
\* of its closure
routeSilenceCallback(r, wsSet) ==
    IF Trim(r.finalTranscript) # <<>> /\ wsSet
    THEN [r EXCEPT !.sent = Append(@, Trim(r.finalTranscript)),
                   !.finalTranscript = <<>>]
    ELSE r

RouteResult ==
    /\ rp.recognition = "started"
    /\ rp.results < MaxRouteResults
    /\ NoTimerDue
    /\ \E text \in FragmentTexts, isFinal \in BOOLEAN :
         rp' = routeOnResult(rp, text, isFinal)
    /\ UNCHANGED <<sessionVars, audioVars, corePageVars, az, sr, mp>>

RouteSilenceTimerFire ==
    /\ rp.timerDue # NULL
    /\ now >= rp.timerDue
    /\ rp' = [routeSilenceCallback(rp, RouteFirstRenderWs)
                EXCEPT !.timerDue = NULL, !.fired = @ + 1]
    /\ UNCHANGED <<sessionVars, audioVars, corePageVars, az, sr, mp>>

\* The mount effect's cleanup: clearTimeout(timer), stopEverything()
RouteUnmount ==
    /\ rp.mounted
    /\ rp' = stopEverything([rp EXCEPT !.mounted = FALSE])
    /\ UNCHANGED <<sessionVars, audioVars, corePageVars, az, sr, mp>>

\* --------------------------------------------------- the question scenario
\* The server's run for one question: `ready`, `question{index}`, then
\* decodable ai_audio chunks, then `ai_done_speaking`; nothing after it.
ScenarioMessages ==
    IF msgCount = 0 THEN {m \in Messages : m.type = "ready"}
    ELSE IF msgCount = 1 THEN {m \in Messages : m.type = "question"}
    ELSE IF lastMsg.type = "ai_done_speaking" THEN {}
    ELSE {m \in Messages : \/ m.type = "ai_audio" /\ m.audio
                           \/ m.type = "ai_done_speaking"}

ScenarioOnMessage == Deliver(ScenarioMessages, MaxChunks + 3)

\* ------------------------------------------------------------ specifications
vars == <<sessionVars, audioVars, pageVars>>

\* The page after its first render: nothing started yet.
PageInitial ==
    /\ now = 0
    /\ mounted = TRUE
    /\ camera = "none"
    /\ transcriptBufferRef = <<>>
    /\ silenceTimerRef = 0
    /\ timers = {}
    /\ timerSeq = 0
    /\ outbox = <<>>
    /\ candidateSpeaking = FALSE
    /\ timelineRef = <<>>
    /\ startTimeRef = 0
    /\ recognizerLive = FALSE
    /\ fragCount = 0
    /\ fired = 0
    /\ lastFinalAt = 0
    /\ pendingFrags = <<>>
    /\ showUpload = FALSE
    /\ recorder = "inactive"
    /\ endPending = NULL
    /\ uploaded = NULL
    /\ uploadCalls = 0
    /\ endHandledFor = NULL
    /\ uploadedTimeline = <<>>

\* The hook after mount, before connect().
Init ==
    /\ state = InitialState
    /\ audioPlayerRef = FALSE
    /\ player = NoAudioPlayer
    /\ arrived = 0
    /\ wsReadyState = "NONE"
    /\ ws = FALSE
    /\ commandCalls = 0
    /\ msgCount = 0
    /\ lastMsg = NoMsg
    /\ PageInitial
    /\ az = AzureMounted(TRUE)
    /\ sr = WebSpeechMounted(TRUE)
    /\ rp = RouteMounted(TRUE)
    /\ mp = MediaPipeSpeechMounted(TRUE)

Next ==
    \/ Connect
    \/ WsOpen
    \/ OnMessage
    \/ WsClose
    \/ ContextRunning
    \/ ResumeSettled
    \/ SourceEnded

Spec == Init /\ [][Next]_vars

\* One AudioPlayer driven through its public methods.
PlayerInit ==
    /\ state = InitialState
    /\ audioPlayerRef = TRUE
    /\ player \in {NewAudioPlayer(ctx) : ctx \in {"suspended", "running"}}
    /\ arrived = 0
    /\ wsReadyState = "NONE"
    /\ ws = FALSE
    /\ commandCalls = 0
    /\ msgCount = 0
    /\ lastMsg = NoMsg
    /\ PageInitial
    /\ az = AzureMounted(TRUE)
    /\ sr = WebSpeechMounted(TRUE)
    /\ rp = RouteMounted(TRUE)
    /\ mp = MediaPipeSpeechMounted(TRUE)

PlayerNext ==
    \/ PlayChunkCall
    \/ StopAllCall
    \/ CloseCall
    \/ ContextRunning
    \/ ResumeSettled
    \/ SourceEnded

PlayerSpec == PlayerInit /\ [][PlayerNext]_vars

\* The same, with the platform delivering its events: a suspended context
\* starts running, resume() promises settle, started sources end.
PlayerLiveSpec ==
    /\ PlayerInit
    /\ [][PlayerNext]_vars
    /\ WF_vars(ContextRunning)
    /\ WF_vars(ResumeSettled)
    /\ WF_vars(SourceEnded)

\* The Azure useSpeechRecognition hook driven by its prop, its stop() and
\* the events of the SDK.
AzureInit ==
    /\ state = InitialState
    /\ audioPlayerRef = FALSE
    /\ player = NoAudioPlayer
    /\ arrived = 0
    /\ wsReadyState = "NONE"
    /\ ws = FALSE
    /\ commandCalls = 0
    /\ msgCount = 0
    /\ lastMsg = NoMsg
    /\ PageInitial
    /\ az \in {AzureMounted(configured) : configured \in BOOLEAN}
    /\ sr = WebSpeechMounted(TRUE)
    /\ rp = RouteMounted(TRUE)
    /\ mp = MediaPipeSpeechMounted(TRUE)

AzureNext ==
    \/ SetEnabled
    \/ StopCall
    \/ HookUnmount
    \/ SdkLoadDone
    \/ StartResolved
    \/ StartRejected
    \/ StopCompleted
    \/ recognizing
    \/ recognized
    \/ sessionStarted
    \/ sessionStopped
    \/ canceled
    \/ RestartTimerFire

AzureSpec == AzureInit /\ [][AzureNext]_vars

\* The Azure hook when no start of a recognizer ever succeeds.
RetryNext ==
    \/ SetEnabled
    \/ StopCall
    \/ HookUnmount
    \/ SdkLoadDone
    \/ RetryStartRejected
    \/ StopCompleted
    \/ RetryTimerFire

RetrySpec == AzureInit /\ [][RetryNext]_vars

\* The Web Speech useSpeechRecognition hook driven by its prop, its stop()
\* and the events of the recognition object.
WebSpeechInit ==
    /\ state = InitialState
    /\ audioPlayerRef = FALSE
    /\ player = NoAudioPlayer
    /\ arrived = 0
    /\ wsReadyState = "NONE"
    /\ ws = FALSE
    /\ commandCalls = 0
    /\ msgCount = 0
    /\ lastMsg = NoMsg
    /\ PageInitial
    /\ az = AzureMounted(TRUE)
    /\ sr \in {WebSpeechMounted(supported) : supported \in BOOLEAN}
    /\ rp = RouteMounted(TRUE)
    /\ mp = MediaPipeSpeechMounted(TRUE)

WebSpeechNext ==
    \/ WebSpeechSetEnabled
    \/ WebSpeechStopCall
    \/ WebSpeechUnmount
    \/ RecognitionStarted
    \/ RecognitionResult
    \/ RecognitionError
    \/ RecognitionEnded
    \/ WebRestartTimerFire

WebSpeechSpec == WebSpeechInit /\ [][WebSpeechNext]_vars

\* The interview page: session status, speech fragments, silence timer.
TurnNext ==
    \/ InitCamera
    \/ PageConnect
    \/ WsOpen
    \/ PageOnMessage
    \/ WsClose
    \/ EnableCapture
    \/ RecognizerStopped
    \/ FinalFragment
    \/ InterimFragment
    \/ Tick
    \/ SilenceTimerFire
    \/ HandleInterviewEnd
    \/ RecorderOnStop
    \/ Unmount

TurnSpec == Init /\ [][TurnNext]_vars

\* The route page driven by its timers, its socket, the camera and the
\* recorder.
RouteInit ==
    /\ state = InitialState
    /\ audioPlayerRef = FALSE
    /\ player = NoAudioPlayer
    /\ arrived = 0
    /\ wsReadyState = "NONE"
    /\ ws = FALSE
    /\ commandCalls = 0
    /\ msgCount = 0
    /\ lastMsg = NoMsg
    /\ PageInitial
    /\ az = AzureMounted(TRUE)
    /\ sr = WebSpeechMounted(TRUE)
    /\ rp \in {RouteMounted(supported) : supported \in BOOLEAN}
    /\ mp = MediaPipeSpeechMounted(TRUE)

RouteNext ==
    \/ RouteInitTimer
    \/ RouteInitCamera
    \/ RouteWsOpen
    \/ RouteOnMessage
    \/ RouteWsError
    \/ RouteWsClose
    \/ RouteDataAvailable
    \/ RouteRecorderOnStop
    \/ RouteRecognitionEnded
    \/ RouteUnmount
    \/ Tick

RouteSpec == RouteInit /\ [][RouteNext]_vars

\* The same, with the platform delivering its events; the user leaving the
\* page and a transport failure are not required to happen.
RouteLiveSpec ==
    /\ RouteInit
    /\ [][RouteNext]_vars
    /\ WF_vars(RouteInitTimer)
    /\ WF_vars(RouteInitCamera)
    /\ WF_vars(RouteWsOpen)
    /\ WF_vars(RouteDataAvailable)
    /\ WF_vars(RouteRecorderOnStop)

\* The hook receiving the messages of one question.
ScenarioNext ==
    \/ Connect
    \/ WsOpen
    \/ ScenarioOnMessage
    \/ ContextRunning
    \/ ResumeSettled
    \/ SourceEnded

ScenarioSpec == Init /\ [][ScenarioNext]_vars

\* The interview page as far as the timeline goes: the session status, the
\* camera and the recorder, final fragments (the only callers of logEvent),
\* the clock and the end of the interview.
TimelineNext ==
    \/ InitCamera
    \/ PageConnect
    \/ WsOpen
    \/ PageOnMessage
    \/ EnableCapture
    \/ FinalFragment
    \/ Tick
    \/ SilenceTimerFire
    \/ HandleInterviewEnd
    \/ RecorderOnStop
    \/ Unmount

TimelineSpec == Init /\ [][TimelineNext]_vars

\* The Azure hook with failing starts, cancellations and sessions that do
\* start, while the hook stays mounted: the restart scheduler over long runs
\* of failures.
BackoffNext ==
    \/ SetEnabled
    \/ StopCall
    \/ SdkLoadDone
    \/ RetryStartRejected
    \/ StopCompleted
    \/ sessionStarted
    \/ RetryCanceled
    \/ RetryTimerFire

BackoffSpec == AzureInit /\ [][BackoffNext]_vars

\* The route page with its recognition results and its silence timer.
RouteTurnNext ==
    \/ RouteInitTimer
    \/ RouteWsOpen
    \/ RouteOnMessage
    \/ RouteWsClose
    \/ RouteRecognitionEnded
    \/ RouteResult
    \/ RouteSilenceTimerFire
    \/ RouteUnmount
    \/ Tick

RouteTurnSpec == RouteInit /\ [][RouteTurnNext]_vars

\* The speech hook of useMediaPipe.ts on its own.
MediaPipeSpeechInit ==
    /\ state = InitialState
    /\ audioPlayerRef = FALSE
    /\ player = NoAudioPlayer
    /\ arrived = 0
    /\ wsReadyState = "NONE"
    /\ ws = FALSE
    /\ commandCalls = 0
    /\ msgCount = 0
    /\ lastMsg = NoMsg
    /\ PageInitial
    /\ az = AzureMounted(TRUE)
    /\ sr = WebSpeechMounted(TRUE)
    /\ rp = RouteMounted(TRUE)
    /\ mp \in {MediaPipeSpeechMounted(supported) : supported \in BOOLEAN}

MediaPipeSpeechNext ==
    \/ MpSetEnabled
    \/ MpStopCall
    \/ MpUnmount
    \/ MpStarted
    \/ MpResult
    \/ MpError
    \/ MpEnded
    \/ MpRestartTimerFire

MediaPipeSpeechSpec == MediaPipeSpeechInit /\ [][MediaPipeSpeechNext]_vars

\* useVoiceInterview driven through its outbound commands.
CommandNext ==
    \/ Connect
    \/ WsOpen
    \/ WsClose
    \/ SendTranscriptCall
    \/ EndInterviewCall

CommandSpec == Init /\ [][CommandNext]_vars

\* The page at the end of the interview: `ended` messages of either id.
EndMessages ==
    {m \in Messages : /\ m.type \in {"question", "ended"}
                      /\ m.index <= 1}

EndOnMessage == Deliver(EndMessages, MaxPageMsgs)

EndNext ==
    \/ PageConnect
    \/ WsOpen
    \/ EndOnMessage
    \/ InitCamera
    \/ HandleInterviewEnd
    \/ RecorderOnStop
    \/ Unmount

EndSpec == Init /\ [][EndNext]_vars

\* ------------------------------------------------------------------ claims
\* Position of a status on the line Connecting -> Ready -> Active -> Ended.
Rank(st) ==
    CASE st = "connecting" -> 0 [] st = "ready" -> 1
      [] st = "active" -> 2 [] st = "ended" -> 3

\* C1: at most one buffer source is rendering (started and not yet ended) at
\* any moment, across every interleaving of playChunk, source-ended
\* callbacks, stopAll and close on one AudioPlayer.
C1_AtMostOneRendering == Cardinality(rendering(player)) <= 1

\* C2: buffers start playing in the order their ai_audio chunks arrived on
\* the transport, however long each chunk's asynchronous resume step takes.
C2_PlayedInArrivalOrder ==
    \A i, j \in 1..Len(player.startLog) :
        i < j => player.startLog[i] < player.startLog[j]

\* C6: the session status only moves forward along
\* Connecting -> Ready -> Active -> Ended, whatever message is handled.
C6_StatusOnlyMovesForward ==
    [][Rank(state'.status) >= Rank(state.status)]_vars

\* C7: once status is Ended and interviewId is assigned, no later inbound
\* message changes any field of the session state.
C7_EndedIsImmutable ==
    [][(state.status = "ended" /\ state.interviewId # NULL)
         => state' = state]_vars

\* C8: while status is Connecting, every inbound message other than ready and
\* ended leaves the session state unchanged and forwards nothing to the audio
\* player.
C8_IgnoredWhileConnecting ==
    [][(/\ state.status = "connecting"
        /\ msgCount' = msgCount + 1
        /\ lastMsg'.type \notin {"ready", "ended"})
         => (state' = state /\ player' = player /\ arrived' = arrived)]_vars

\* C9: in every reachable state interviewId is non-null only if status is
\* Ended.
C9_InterviewIdOnlyWhenEnded ==
    state.interviewId # NULL => state.status = "ended"

\* The buffer text that a sequence of final fragments builds: each fragment
\* followed by one space, in arrival order.
RECURSIVE Joined(_)
Joined(frags) ==
    IF frags = <<>> THEN <<>> ELSE Head(frags) \o <<" ">> \o Joined(Tail(frags))

\* A step in which a silence timer expires on a buffer that holds text: the
\* end of a group of fragments followed by a full threshold of silence.
GroupEnds == fired' = fired + 1 /\ Trim(transcriptBufferRef) # <<>>

\* C3: debounce of the turn detector: exactly one response_complete is sent
\* per group of final fragments followed by a gap of at least the silence
\* threshold, nothing is sent at any other time, and at most one silence
\* timer is pending.
C3_OneTurnPerGroup ==
    [][/\ GroupEnds => Len(outbox') = Len(outbox) + 1
       /\ Len(outbox') # Len(outbox) =>
             (GroupEnds /\ now - lastFinalAt >= SilenceThresholdMs)
       /\ Cardinality(timers') <= 1]_vars

\* C4: every final fragment is transmitted exactly once: the flush puts one
\* response_complete on the wire whose transcript is the concatenation, in
\* arrival order, of the final fragments received since the previous flush,
\* and leaves the buffer empty.
C4_FlushTransmitsPending ==
    [][GroupEnds =>
          /\ outbox' = Append(outbox,
                [type |-> "response_complete",
                 transcript |-> Trim(Joined(pendingFrags))])
          /\ transcriptBufferRef' = <<>>]_vars

\* C5: a silence timer that is pending when the session leaves Active for
\* Ended never leads to a transmission: it is cancelled and the buffer is
\* discarded, so no response_complete is sent once status is Ended.
C5_NoSendAfterEnded ==
    [][\A t \in timers :
          (t.armedIn = "active" /\ state.status = "ended")
             => (t \in timers' \/ outbox' = outbox)]_vars

\* C10: a recognizer start is issued only while capture is enabled, the hook
\* is mounted and stop() has not been called since the last enable; a start
\* that was suspended when capture was disabled issues nothing when it
\* resumes.
Disabled(h) == ~h.enabled \/ h.manuallyStoppedRef \/ ~h.mounted

C10_NoStartWhileDisabled ==
    [][Len(az'.recognizers) > Len(az.recognizers) => ~Disabled(az')]_vars

\* C11: at most one capture session is active at any instant: there are never
\* two recognizers that have been started and not yet disposed (no stop has
\* been requested on them).
Active(h) ==
    {r \in 1..Len(h.recognizers) : h.recognizers[r].phase = "started"}

C11_AtMostOneActiveRecognizer == Cardinality(Active(az)) <= 1

\* C12: restart attempts are capped: the number of consecutive restarts
\* scheduled without a successful session start never exceeds the cap, also
\* when every start of a recognizer fails.
C12_RestartCap == az.restartAttemptRef <= MAX_RESTARTS

\* C13: while capture is enabled and the hook is not in its terminal error
\* state, the end of a session that had started is always followed by a
\* restart: when every session since the enable has started successfully, a
\* restart is scheduled in the step that handles an end, however many
\* sessions have ended before.
NaturalEnd ==
    /\ sr.phase = "active"
    /\ ~sr.startPending
    /\ sr'.phase = "idle"

C13_NaturalEndRestarts ==
    [][(/\ NaturalEnd
        /\ sr.enabledRef
        /\ sr.onendAttached
        /\ sr.noFailure
        /\ sr.error # "Speech recognition failed")
          => sr'.restartTimers = sr.restartTimers + 1]_vars

\* C14: no answer is silently lost: whenever the silence-timer callback
\* clears a non-empty buffer, a response_complete carrying that text has been
\* accepted by the open socket in the same step.  (sendTranscript has no
\* logging or error path for a skipped send, so a skipped send leaves no
\* trace in any variable.)
FlushClears ==
    /\ fired' = fired + 1
    /\ transcriptBufferRef # <<>>
    /\ transcriptBufferRef' = <<>>

C14_NoSilentLoss ==
    [][FlushClears =>
          /\ Len(outbox') = Len(outbox) + 1
          /\ outbox'[Len(outbox')].transcript = Trim(transcriptBufferRef)]_vars

\* C15: stopAll and close are safe to repeat and close is final: no call or
\* callback ever throws, the AudioContext is closed at most once, and once
\* close() has run no source is started again, whatever playChunk
\* continuations, playChunk calls and source-ended callbacks come afterwards.
C15_ClosedStaysSilent ==
    [][/\ player'.thrown = 0
       /\ player'.closeCalls <= 1
       /\ player.closeCalls > 0 => player'.startLog = player.startLog]_vars

\* close() has run while a playChunk call was still suspended at resume()
\* and a started source had not ended: the continuation and the
\* source-ended callback are both still to come.
C15_ClosedWithWorkInFlight ==
    /\ player.closeCalls = 1
    /\ player.audioContext = "null"
    /\ player.resumePromises # <<>>
    /\ Head(player.resumePromises).ok
    /\ player.sources # {}

\* C16: immediately after stopAll returns the queue is empty and no buffer
\* is rendering: stopAll halts the source that is playing.
C16_StopAllHaltsPlayback ==
    [][player' = stopAll(player) =>
          /\ player'.audioQueue = <<>>
          /\ rendering(player') = {}]_vars

\* C17: no buffer is dropped except by stopAll/close and the queue never
\* stalls.  (1) A queued buffer leaves the queue only by being started or
\* in a stopAll/close step.  (2) While a buffer is queued, or the playing
\* flag is set, a started source has yet to end, so a completion that calls
\* playNext is pending.  (3) A buffer is queued behind another only while
\* the playing flag is set: on an idle player it is started in the step
\* that pushes it.  (4) With every started source eventually ending, every
\* queued buffer is eventually started or discarded by stopAll/close.
Range(s) == {s[i] : i \in 1..Len(s)}

Discards == player' = stopAll(player) \/ player' = close(player)

C17_NoDropNoStall ==
    /\ [][\A c \in Range(player.audioQueue) :
             \/ c \in Range(player'.audioQueue)
             \/ c \in Range(player'.startLog)
             \/ Discards]_vars
    /\ [](player.audioQueue # <<>> \/ player.isPlaying
             => player.sources # {})
    /\ [][Len(player'.audioQueue) > Len(player.audioQueue)
             => player.isPlaying]_vars
    /\ \A c \in 1..MaxChunks :
          (c \in Range(player.audioQueue))
             ~> (c \in Range(player.startLog)
                    \/ c \notin Range(player.audioQueue))

\* Three chunks were played one after the other: the last one is rendering,
\* nothing was refused and the queue has drained.
C17_QueueDrained ==
    /\ player.startLog = <<1, 2, 3>>
    /\ player.sources = {3}
    /\ player.audioQueue = <<>>
    /\ player.isPlaying
    /\ player.errorLog = 0
    /\ player.closeCalls = 0

\* C18: a chunk whose decode fails is dropped without affecting the others:
\* the step in which its playChunk fails changes neither the queue, the
\* playing flag, the started sources nor the session state and lets no
\* exception escape, and the chunks that arrived after it are still started
\* in their order of arrival.
DecodeFails == player'.failed # player.failed

StartedInOrderAfter(f) ==
    \A i, j \in 1..Len(player.startLog) :
        (i < j /\ f < player.startLog[i] /\ f < player.startLog[j])
            => player.startLog[i] < player.startLog[j]

C18_DecodeFailureIsolated ==
    /\ [][DecodeFails =>
             /\ player'.audioQueue = player.audioQueue
             /\ player'.isPlaying = player.isPlaying
             /\ player'.sources = player.sources
             /\ player'.thrown = player.thrown
             /\ state' = state]_vars
    /\ [](\A f \in player.failed : StartedInOrderAfter(f))

\* C19: inbound messages take effect in arrival order: a message is handled
\* only when every earlier ai_audio chunk has been enqueued, so no chunk is
\* still suspended in playChunk when a later message is applied.
C19_HandledInArrivalOrder ==
    [][msgCount' = msgCount + 1 => player.resumePromises = <<>>]_vars

\* C20: an ended message sets status to ended and interviewId to the
\* message's id, and the end of the interview stops everything: when
\* handleInterviewEnd runs it leaves the recorder not recording and no
\* silence timer of the active phase pending, and from then on no
\* response_complete is sent.
EndedHandled == msgCount' = msgCount + 1 /\ lastMsg'.type = "ended"

C20_EndedStopsEverything ==
    /\ [][EndedHandled =>
             /\ state'.status = "ended"
             /\ state'.interviewId = lastMsg'.interview_id]_vars
    /\ [][showUpload' /\ ~showUpload =>
             /\ recorder' # "recording"
             /\ \A t \in timers' : t.armedIn # "active"]_vars
    /\ [][showUpload => outbox' = outbox]_vars


\* The websocket is closed while the session has not ended.
ChannelGone == wsReadyState = "CLOSED" /\ state.status # "ended"

\* Some subsystem is running: the recognizer, a pending silence timer, the
\* MediaRecorder or an audible source.
LiveSubsystems ==
    \/ recognizerLive
    \/ timers # {}
    \/ recorder = "recording"
    \/ rendering(player) # {}

\* C21: a transport close in a non-terminal state is an abnormal termination.
\* Once the channel is gone and the session has not ended, no step of the
\* mounted page leaves audio playback, speech capture, the silence timer or
\* the recording running.
C21_CloseStopsSubsystems ==
    [][ChannelGone /\ mounted' => ~LiveSubsystems']_vars

\* C22: once the interview page's cleanup has run (the page is unmounted),
\* no silence-timer callback executes and no response_complete is sent,
\* even when the recognizer delivers a final fragment afterwards.
C22_NoTimerAfterTeardown ==
    [][~mounted => fired' = fired /\ outbox' = outbox]_vars

C24_StreamReleasedOnExit ==
    /\ ~mounted => camera # "active"
    /\ uploaded # NULL => camera # "active"

\* C25: upload failure is non-fatal.  Once the session has ended on a page
\* that stays mounted, the navigation to the feedback screen is eventually
\* scheduled, whatever the outcome of the upload, and the upload is issued
\* at most once.
C25_EndedLeadsToResults ==
    /\ (rp.mounted /\ rp.status = "ended")
           ~> (rp.navTimers > 0 \/ ~rp.mounted)
    /\ [](rp.navTimers <= 1)

\* C26: in a run `ready`, `question{index: i}`, n ai_audio chunks,
\* `ai_done_speaking`: the question sets questionIndex to i, every ai_audio
\* message leaves the session state unchanged, after ai_done_speaking the
\* state is Active with questionIndex still i and aiSpeaking false, and the
\* buffers start strictly in arrival order.
C26_QuestionScenario ==
    /\ [][msgCount' = msgCount + 1 =>
             /\ lastMsg'.type = "question" =>
                    state'.questionIndex = lastMsg'.index
             /\ lastMsg'.type = "ai_audio" => state' = state
             /\ lastMsg'.type = "ai_done_speaking" =>
                    /\ state'.status = "active"
                    /\ state'.questionIndex = state.questionIndex
                    /\ state'.currentQuestion = state.currentQuestion
                    /\ ~state'.aiSpeaking]_vars
    /\ [](\A i, j \in 1..Len(player.startLog) :
              i < j => player.startLog[i] < player.startLog[j])

\* C27: an ai_audio chunk is forwarded to the AudioPlayer (playChunk is
\* called) only while status is Active.
C27_AudioOnlyWhileActive ==
    [][arrived' = arrived + 1 => state.status = "active"]_vars

\* C28: speech capture runs only while the session is Active: whenever the
\* recognition is started, status is Active (not Connecting, Ready or
\* Ended).
C28_CaptureOnlyWhileActive ==
    rp.recognition = "started" => rp.status = "active"

\* C29: timeline timestamps are monotonic non-decreasing in insertion order,
\* wherever logEvent calls fall relative to startRecording.
C29_TimelineMonotonic ==
    \A i, j \in 1..Len(timelineRef) :
        i < j => timelineRef[i].timestamp <= timelineRef[j].timestamp

\* The sequence s is a prefix of the sequence t.
IsPrefix(s, t) == Len(s) <= Len(t) /\ SubSeq(t, 1, Len(s)) = s

\* C30: the timeline is append-only.  In every step the previous timeline is
\* a prefix of the new one, and whenever the recording is handed to the
\* upload the timeline handed over is the whole insertion-ordered log.
C30_TimelineAppendOnly ==
    /\ [][IsPrefix(timelineRef, timelineRef')]_vars
    /\ [][uploaded' # uploaded => uploadedTimeline' = timelineRef']_vars

\* C30 witness: a timeline of two events, logged on both sides of
\* startRecording, has been handed to the upload.
C30_TimelineHandedOver ==
    /\ uploaded # NULL
    /\ Len(uploadedTimeline) = 2
    /\ uploadedTimeline[1].timestamp # uploadedTimeline[2].timestamp

\* The delay the claim gives for the k-th restart after a failure.
Backoff(k) == Min(30000, 1000 * 2 ^ Min(k, 5))

\* The restart timers created by the step.
NewRestartTimers == az'.restartTimers \ az.restartTimers

\* C31: a restart scheduled for a session-boundary end waits 1000 ms; one
\* scheduled for a network or service failure waits
\* min(30000, 1000 * 2^min(k, 5)) ms, k being the restarts scheduled since
\* the last sessionStarted, which resets k to 0; the failure delay never
\* decreases with k and never exceeds 30000 ms.
C31_BackoffDelay ==
    /\ [][\A t \in NewRestartTimers :
              /\ az'.restartAttemptRef = az.restartAttemptRef + 1
              /\ t.reason = "normal" => t.delayMs = 1000
              /\ t.reason \in {"network", "service"} =>
                     /\ t.delayMs = Backoff(az'.restartAttemptRef)
                     /\ t.delayMs <= 30000
                     /\ az.restartAttemptRef >= 1 =>
                            t.delayMs >= Backoff(az.restartAttemptRef)]_vars
    /\ [][sessionStarted => az'.restartAttemptRef = 0]_vars

\* C31 witness: the fifth restart in a row after a failure is pending with
\* the capped delay.
C31_CappedRestartPending ==
    \E t \in az.restartTimers :
        /\ t.reason = "service"
        /\ az.restartAttemptRef = 5
        /\ t.delayMs = 30000


\* C32: an interim result (isFinal = false) leaves the accumulated transcript
\* and the pending silence timer as they are: it appends no text and neither
\* starts, re-arms nor cancels the timer.  Stated for recognition.onresult of
\* the route page.
C32_InterimLeavesTurnAlone ==
    [][rp'.results = rp.results + 1 /\ ~rp'.lastFinal =>
           /\ rp'.finalTranscript = rp.finalTranscript
           /\ rp'.silenceTimerRef = rp.silenceTimerRef
           /\ rp'.timerDue = rp.timerDue]_vars


\* C33: currentQuestion is emptied by every question message and extended in
\* arrival order by every ai_transcript_delta handled while status is
\* 'active', and by nothing else: a delta handled in another status, and every
\* other message, leaves it as it is.
Handled(type) == msgCount' = msgCount + 1 /\ lastMsg'.type = type

C33_QuestionTextIsDeltasSinceQuestion ==
    [][/\ Handled("question") => state'.currentQuestion = <<>>
       /\ Handled("ai_transcript_delta") =>
              state'.currentQuestion =
                  IF state.status = "active"
                  THEN state.currentQuestion \o lastMsg'.text
                  ELSE state.currentQuestion
       /\ msgCount' = msgCount + 1
              /\ lastMsg'.type \notin {"question", "ai_transcript_delta"} =>
              state'.currentQuestion = state.currentQuestion]_vars


\* C34: every handled question message appends exactly one event of type
\* question_asked, severity info, carrying the question's index, to the
\* session timeline.  Stated for the page built on useVoiceInterview and
\* useVideoRecorder.
C34_QuestionIsLogged ==
    [][Handled("question") =>
           /\ Len(timelineRef') = Len(timelineRef) + 1
           /\ timelineRef'[Len(timelineRef')].type = "question_asked"
           /\ timelineRef'[Len(timelineRef')].severity = "info"
           /\ timelineRef'[Len(timelineRef')].data = lastMsg'.index]_vars


\* C35: a message of a kind handleMessage has no case for is ignored: no field
\* of the session state changes, nothing reaches the audio player, nothing is
\* sent, the socket and the player reference stay as they are, and the
\* message that follows it is handled as usual.
KnownTypes ==
    {"ready", "question", "ai_audio", "ai_transcript_delta",
     "ai_done_speaking", "ended", "error"}

C35_UnknownMessageIgnored ==
    /\ [][msgCount' = msgCount + 1 /\ lastMsg'.type \notin KnownTypes =>
              /\ state' = state
              /\ player' = player
              /\ arrived' = arrived
              /\ outbox' = outbox
              /\ wsReadyState' = wsReadyState
              /\ audioPlayerRef' = audioPlayerRef]_vars
    /\ [][msgCount' = msgCount + 1 /\ lastMsg.type \notin KnownTypes
              /\ lastMsg'.type = "question" =>
              /\ state'.status = "active"
              /\ state'.questionIndex = lastMsg'.index]_vars

C35_UnknownHandledMidInterview ==
    /\ lastMsg.type = "ping"
    /\ msgCount >= 2
    /\ state.status = "active"
    /\ state.questionIndex = 2


\* C36: the speaking signal is cleared when a final fragment is delivered:
\* whenever the fragment handed to onTranscript last was final, the value
\* handed to onSpeakingChange last is false.  Stated for the hook of
\* useMediaPipe.ts.
C36_SpeakingClearedByFinal ==
    mp.heard # <<>> /\ mp.heard[Len(mp.heard)].isFinal => ~mp.speaking


\* C37: sendTranscript and endInterview hand a message to the socket only
\* when the hook holds a socket whose readyState is OPEN, and then exactly
\* one (response_complete with the transcript, or end); a call made with no
\* socket or with a connecting or closed one sends nothing and returns.
C37_CommandsOnlyWhenOpen ==
    [][commandCalls' = commandCalls + 1 =>
           IF ws /\ wsReadyState = "OPEN"
           THEN /\ Len(outbox') = Len(outbox) + 1
                /\ SubSeq(outbox', 1, Len(outbox)) = outbox
                /\ outbox'[Len(outbox')].type \in {"response_complete", "end"}
           ELSE outbox' = outbox]_vars

C37_CallsOnEverySocketState ==
    /\ commandCalls = 3
    /\ Len(outbox) = 1
    /\ outbox[1].type = "end"
    /\ wsReadyState = "CLOSED"


\* C38: no response_complete handed to the socket carries an empty or
\* whitespace-only transcript, and a silence timer that expires over an empty
\* or whitespace-only buffer sends nothing and leaves the buffer as it is.
IsBlank(s) == \A i \in 1..Len(s) : s[i] = " "

C38_NoBlankTranscriptSent ==
    /\ [](\A i \in 1..Len(outbox) :
              outbox[i].type = "response_complete" =>
                  ~IsBlank(outbox[i].transcript))
    /\ [][fired' = fired + 1 /\ IsBlank(transcriptBufferRef) =>
              /\ outbox' = outbox
              /\ transcriptBufferRef' = transcriptBufferRef]_vars

C38_BlankBufferExpired ==
    /\ fired >= 1
    /\ timers = {}
    /\ transcriptBufferRef = <<" ", " ">>
    /\ outbox = <<>>
    /\ wsReadyState = "OPEN"


\* C39: UploadService.uploadWithProgress is called at most once per session,
\* whatever `ended` messages are received.
C39_AtMostOneUpload == uploadCalls <= 1


\* C40: at most one restart timer of the Azure hook is pending at any time
\* and restartTimeoutRef holds its id; while it stays pending the attempt
\* counter is not incremented; and a step that enters startRecognition past
\* its guard leaves no restart timer pending.
StartRecognitionEntered ==
    \/ az'.loadWaiters > az.loadWaiters
    \/ az.sdk = "loaded" /\ Len(az'.recognizers) > Len(az.recognizers)

C40_OneRestartTimer ==
    /\ [](/\ Cardinality(az.restartTimers) <= 1
          /\ \A t \in az.restartTimers : t.id = az.restartTimeoutRef)
    /\ [][az.restartTimers # {} /\ az.restartTimers \subseteq az'.restartTimers
              => az'.restartAttemptRef \in {az.restartAttemptRef, 0}]_vars
    /\ [][StartRecognitionEntered =>
              az'.restartTimers = {} /\ az'.restartTimeoutRef = 0]_vars

\* A restart was scheduled after a session stop, and a cancellation that
\* followed found it pending.
C40_SecondScheduleIgnored ==
    /\ az.enabledRef /\ ~az.manuallyStoppedRef
    /\ \E t \in az.restartTimers : t.reason = "normal"
    /\ az.error = "canceled"
    /\ az.restartAttemptRef = 1
    /\ az.restartSeq = 1

====
